---- MODULE Spec2Model ----
(***************************************************************************)
(* A model of the kite of src/kite/main.go: the coordinator-broadcast      *)
(* handler (handle, Pong, AddKite, RemoveKite, InitializeKite,             *)
(* RegisterToKontrol, serve), the peer registry `kites`, the balancer      *)
(* `balance`, and the asynchronous Call with its resolution path           *)
(* (getRemoteKite, roundRobin, RemoteKites, dialClient).                   *)
(*                                                                         *)
(* The packages koding/newkite/peers and koding/newkite/balancer are not   *)
(* part of the source tree; the registry and the balancer are modelled     *)
(* from their description in spec.md (sections 4.1 and 4.2).               *)
(***************************************************************************)
EXTENDS Integers, Sequences, FiniteSets, TLC

\* ---------------------------------------------------------------- bounds
\* Number of network addresses a peer can be announced at.
NAddrs == 2
\* Number of Call invocations (each on a goroutine of its own).
NCalls == 2
\* The models.Kite records that can be reachable at a time: one per address
\* in the registry, two held by each Call (r and remoteKite), and the one
\* AddKite allocates.
MaxObjs == NAddrs + 2 * NCalls + 1

Addrs == 1..NAddrs
Objs == 1..MaxObjs
Calls == 1..NCalls
\* Logical kite names ("username/kitename") of remote peers.
Groups == {"g1", "g2"}
Uuids == {"u1", "u2"}

\* ------------------------------------------------------ protocol values
AddKiteAction == "addKite"
RemoveKiteAction == "removeKite"
UpdateKiteAction == "updateKite"
PingAction == "ping"
\* "other" stands for every unrecognized action, "undecodable" for a payload
\* json.Unmarshal rejects.
BroadcastKinds ==
    {AddKiteAction, RemoveKiteAction, UpdateKiteAction, PingAction, "other",
     "undecodable"}
AllowKite == "allow"
PermitKite == "deny"
\* Bodies Messenger.Send can return for a pong and for a register request.
PongResponses == {"", "UPDATE"}
RegisterResponses == {AllowKite, PermitKite, "nonstandard", "malformed"}

\* A broadcast: protocol.PubResponse, reduced to the fields handle reads for
\* its action.
Broadcasts ==
    [Action : {AddKiteAction}, Kitename : Groups, Uuid : Uuids, Addr : Addrs]
        \cup [Action : {RemoveKiteAction}, Uuid : Uuids]
        \cup [Action : BroadcastKinds \ {AddKiteAction, RemoveKiteAction}]

\* What the coordinator can answer while a broadcast is handled: a register
\* request is only sent for a ping, a pong only for a decoded broadcast.
RegisterResponsesTo(r) ==
    IF r.Action = PingAction THEN RegisterResponses ELSE {"none"}
PongResponsesTo(r) ==
    IF r.Action = "undecodable" THEN {""} ELSE PongResponses

VARIABLES
    KontrolEnabled, \* Kite.KontrolEnabled, as set before Start
    started,     \* Start has been called
    proc,        \* the process: "running", "panic" (nil dereference), "exit"
    Registered,  \* Kite.Registered
    OnceServer,  \* Kite.OnceServer: TRUE once a Do has entered its body
    srv,         \* the serve goroutine: "none", "spawned", "listening"
    Pool,        \* Kite.Pool is non-nil
    serveCount,  \* how many times serve has been entered
    kites,       \* the registry: address -> record id (0: no entry)
    objs,        \* the heap of models.Kite records, by id (NoKite: free)
    balance,     \* the balancer: group -> last index
    OnceCall,    \* Kite.OnceCall: TRUE once its Do has run
    call,        \* the Call goroutines
    discEpoch,   \* getKites requests sent since OnceCall was last fresh
    net,         \* the peers added to the registry and not removed since
    \* observations, which no action of the program reads
    last,        \* what the handling of the last broadcast did
    prev,        \* the action of the broadcast handled before it
    denied,      \* a register request has been answered PermitKite
    picks,       \* group -> what the last resolutions listed and returned
    lastPick     \* the last roundRobin: stored index, candidates, new index

\* The fields of the Kite and the process.
kvars ==
    <<KontrolEnabled, started, proc, Registered, OnceServer, srv, Pool,
      serveCount>>
\* The registry, the heap, the balancer, the Calls, the discovery requests
\* sent and the calls made to the registry.
cvars == <<kites, objs, balance, OnceCall, call, discEpoch, net>>
\* The observations.
hvars == <<last, prev, denied, picks, lastPick>>
vars == <<kvars, cvars, hvars>>

\* ----------------------------------------------------------------- heap
\* A free slot of the heap.  Client tells whether the record's Client field
\* is non-nil; Conns counts the connections dialClient opened for it (no
\* code path closes one).
NoKite ==
    [Kitename |-> "", Uuid |-> "", Addr |-> 0, Client |-> FALSE, Conns |-> 0]

FreeSlots(heap) == {i \in Objs : heap[i] = NoKite}

\* The slot a new record is allocated in: any free one (there is one, since
\* the records nothing refers to are collected).
NewSlot(heap) == CHOOSE i \in FreeSlots(heap) : \A j \in FreeSlots(heap) : i <= j

RECURSIVE ListFrom(_, _)
ListFrom(reg, a) ==
    IF a > NAddrs THEN <<>>
    ELSE (IF reg[a] # 0 THEN <<reg[a]>> ELSE <<>>) \o ListFrom(reg, a + 1)

\* The records the Calls hold in r or remoteKite, in the order of the Calls.
RECURSIVE HeldFrom(_, _)
HeldFrom(cl, c) ==
    IF c > NCalls THEN <<>>
    ELSE <<cl[c].r, cl[c].remoteKite>> \o HeldFrom(cl, c + 1)

RECURSIVE Distinct(_)
Distinct(q) ==
    IF q = <<>> THEN <<>>
    ELSE LET front == Distinct(SubSeq(q, 1, Len(q) - 1))
             x == q[Len(q)]
         IN  IF x = 0 \/ (\E k \in 1..Len(front) : front[k] = x) THEN front
             ELSE Append(front, x)

\* The reachable records: those of the registry by address, then those only
\* a Call holds.
Reachable(reg, cl) == Distinct(ListFrom(reg, 1) \o HeldFrom(cl, 1))

Position(q, i) == IF i = 0 THEN 0 ELSE CHOOSE k \in 1..Len(q) : q[k] = i

\* The heap up to the numbering of its records, which no code observes: the
\* reachable records are numbered in the order of Reachable, and a record
\* nothing refers to any more is collected (its slot is free again).
Normalize(heap, reg, cl) ==
    LET q == Reachable(reg, cl)
    IN  [objs |-> [j \in Objs |-> IF j <= Len(q) THEN heap[q[j]] ELSE NoKite],
         kites |-> [a \in Addrs |-> Position(q, reg[a])],
         call |-> [c \in Calls |->
                     [cl[c] EXCEPT !.r = Position(q, @),
                                   !.remoteKite = Position(q, @)]]]

\* The heap, the registry and the Calls after a step that leaves them as
\* heap, reg and cl.
Commit(heap, reg, cl) ==
    \E w \in {Normalize(heap, reg, cl)} :
       /\ objs' = w.objs
       /\ kites' = w.kites
       /\ call' = w.call

\* ------------------------------------------------------------- registry
\* peers.Add: insert or replace the entry for the record's address.
RegistryAdd(reg, heap, i) == [reg EXCEPT ![heap[i].Addr] = i]

\* peers.Remove: delete by unique id.
RegistryRemove(reg, heap, id) ==
    [a \in Addrs |-> IF reg[a] # 0 /\ heap[reg[a]].Uuid = id THEN 0 ELSE reg[a]]

\* The peer a record stands for.
Peer(k) == [Kitename |-> k.Kitename, Uuid |-> k.Uuid, Addr |-> k.Addr]

\* The peers added and not removed afterwards, after one more Add (which
\* takes the place of an earlier Add for the same address) or Remove.
NetAdd(peers, p) == {q \in peers : q.Addr # p.Addr} \cup {p}
NetRemove(peers, id) == {q \in peers : q.Uuid # id}

\* peers.List: a snapshot of the entries.  Its order is not fixed by
\* spec.md: any order of the entries can be returned.
RegistryList(reg) ==
    LET entries == {reg[a] : a \in {b \in Addrs : reg[b] # 0}}
    IN  {l \in [1..Cardinality(entries) -> entries] :
            \A i, j \in DOMAIN l : l[i] = l[j] => i = j}

\* balancer.GetIndex (0 for a group not seen yet), balancer.AddOrUpdateIndex
GetIndex(bal, g) == bal[g]
AddOrUpdateIndex(bal, g, n) == [bal EXCEPT ![g] = n]

\* A variant of RemoteKites without the test of the name.
RemoteKites_NoFilter(l, heap, kite) == l

\* Kite.RemoteKites, on the snapshot l that kites.List() returned: the
\* entries whose Kitename is `kite`.
RemoteKites(l, heap, kite) ==
    SelectSeq(l, LAMBDA i : heap[i].Kitename = kite)

\* Variants of NextIndex: the index that was stored is used again; the index
\* is held at the last candidate instead of wrapping around.
NextIndex_NoAdvance(index, lenOfKites) == index % lenOfKites
NextIndex_Saturate(index, lenOfKites) ==
    IF index + 1 < lenOfKites THEN index + 1 ELSE lenOfKites - 1

\* roundRobin's index: int(math.Mod(float64(index+1), N)).
NextIndex(index, lenOfKites) == (index + 1) % lenOfKites

\* Kite.roundRobin up to balance.AddOrUpdateIndex, on the snapshot l: the
\* error, or the index that was stored, the index n and the record
\* remoteKites[n] it will return.
roundRobin(l, heap, bal, kite) ==
    LET remoteKites == RemoteKites(l, heap, kite)
        lenOfKites == Len(remoteKites)
        index == GetIndex(bal, kite)
        n == NextIndex(index, lenOfKites)
    IN  IF lenOfKites = 0
        THEN [err |-> TRUE, len |-> 0, index |-> index, n |-> 0, r |-> 0]
        ELSE [err |-> FALSE, len |-> lenOfKites, index |-> index, n |-> n,
              r |-> remoteKites[n + 1]]

\* ---------------------------------------------------- broadcast handler
\* The handler is computed on a record of the fields it reads and writes;
\* `log` lists, in order, what the handling of one broadcast did:
\*   "pong"      a pong request was sent through Messenger.Send
\*   "add"       kites.Add              "remove"  kites.Remove
\*   "clear"     Registered = false by the updateKite case
\*   "register"  a register request was sent through Messenger.Send
\*   "serve"     go OnceServer.Do(onceBody) entered serve
\*   "set"       Registered = true
\* reg is the registered flag as the switch on the action finds it, resp
\* the answer to the register request ("none": not sent).
HandlerState ==
    [Registered |-> Registered, OnceServer |-> OnceServer, srv |-> srv,
     serveCount |-> serveCount, Pool |-> Pool, kites |-> kites, objs |-> objs,
     proc |-> proc, log |-> <<>>, reg |-> Registered, resp |-> "none"]

Logged(h, e) == [h EXCEPT !.log = Append(@, e)]

\* A variant of Pong that clears the flag whatever the body is.
Pong_AnyBody(h, pongResp) == [Logged(h, "pong") EXCEPT !.Registered = FALSE]

\* Kite.Pong: send the pong; an "UPDATE" body clears the registered flag.
Pong(h, pongResp) ==
    LET sent == Logged(h, "pong")
    IN  IF pongResp = "UPDATE" THEN [sent EXCEPT !.Registered = FALSE] ELSE sent

\* A variant of AddKite whose record lacks the Uuid of the broadcast.
AddKite_NoUuid(h, r) ==
    IF ~h.Registered THEN h
    ELSE LET kite == [Kitename |-> r.Kitename, Uuid |-> "", Addr |-> r.Addr,
                      Client |-> FALSE, Conns |-> 0]
             i == NewSlot(h.objs)
             heap == [h.objs EXCEPT ![i] = kite]
             added == [Logged(h, "add") EXCEPT
                          !.objs = heap,
                          !.kites = RegistryAdd(h.kites, heap, i)]
         IN  IF added.Pool THEN added ELSE [added EXCEPT !.proc = "panic"]

\* Kite.AddKite: a new models.Kite record, kites.Add, then SetPeers on the
\* pool, which dereferences k.Pool.
AddKite(h, r) ==
    IF ~h.Registered THEN h
    ELSE LET kite == [Kitename |-> r.Kitename, Uuid |-> r.Uuid, Addr |-> r.Addr,
                      Client |-> FALSE, Conns |-> 0]
             i == NewSlot(h.objs)
             heap == [h.objs EXCEPT ![i] = kite]
             added == [Logged(h, "add") EXCEPT
                          !.objs = heap,
                          !.kites = RegistryAdd(h.kites, heap, i)]
         IN  IF added.Pool THEN added ELSE [added EXCEPT !.proc = "panic"]

\* A variant of RemoveKite without the test of the registered flag.
RemoveKite_NoTest(h, r) ==
    [Logged(h, "remove") EXCEPT
        !.kites = RegistryRemove(h.kites, h.objs, r.Uuid)]

\* Kite.RemoveKite
RemoveKite(h, r) ==
    IF ~h.Registered THEN h
    ELSE [Logged(h, "remove") EXCEPT
             !.kites = RegistryRemove(h.kites, h.objs, r.Uuid)]

\* Kite.RegisterToKontrol: the error it returns ("nil": none).
RegisterToKontrol(regResp) ==
    CASE regResp = "malformed" -> "unmarshal error"
      [] regResp = AllowKite -> "nil"
      [] regResp = PermitKite -> "no permission to run"
      [] OTHER -> "got a nonstandard response"

\* A variant without the guard: every Do enters serve.
OnceServerDo_Unguarded(h) ==
    [Logged(h, "serve") EXCEPT
        !.OnceServer = TRUE, !.srv = "spawned", !.serveCount = @ + 1]

\* sync.Once.Do on OnceServer with body serve: the body is entered by the
\* first Do only (serve never returns, so later Do calls block for ever).
OnceServerDo(h) ==
    IF h.OnceServer THEN h
    ELSE [Logged(h, "serve") EXCEPT
             !.OnceServer = TRUE, !.srv = "spawned", !.serveCount = @ + 1]

\* A variant of InitializeKite without the test of the registered flag.
InitializeKite_NoTest(h, regResp) ==
    LET asked == [Logged(h, "register") EXCEPT !.resp = regResp]
    IN  IF RegisterToKontrol(regResp) # "nil" THEN asked
        ELSE [Logged(OnceServerDo(asked), "set") EXCEPT !.Registered = TRUE]

\* A variant of InitializeKite that goes on after a failed registration.
InitializeKite_IgnoreError(h, regResp) ==
    IF h.Registered THEN h
    ELSE LET asked == [Logged(h, "register") EXCEPT !.resp = regResp]
         IN  [Logged(OnceServerDo(asked), "set") EXCEPT !.Registered = TRUE]

\* Kite.InitializeKite
InitializeKite(h, regResp) ==
    IF h.Registered THEN h
    ELSE LET asked == [Logged(h, "register") EXCEPT !.resp = regResp]
         IN  IF RegisterToKontrol(regResp) # "nil" THEN asked
             ELSE [Logged(OnceServerDo(asked), "set") EXCEPT !.Registered = TRUE]

\* A variant of the switch that treats every other action as a ping.
Dispatch_AnyAction(h, r, regResp) ==
    CASE r.Action = AddKiteAction -> AddKite(h, r)
      [] r.Action = RemoveKiteAction -> RemoveKite(h, r)
      [] r.Action = UpdateKiteAction ->
            [Logged(h, "clear") EXCEPT !.Registered = FALSE]
      [] OTHER -> InitializeKite(h, regResp)

\* The switch of handle on r.Action.
Dispatch(h, r, regResp) ==
    CASE r.Action = AddKiteAction -> AddKite(h, r)
      [] r.Action = RemoveKiteAction -> RemoveKite(h, r)
      [] r.Action = UpdateKiteAction ->
            [Logged(h, "clear") EXCEPT !.Registered = FALSE]
      [] r.Action = PingAction -> InitializeKite(h, regResp)
      [] OTHER -> h

\* A variant of handle that calls Pong after the switch.
Handled_PongLast(h, r, pongResp, regResp) ==
    IF r.Action = "undecodable" THEN h
    ELSE Pong(Dispatch([h EXCEPT !.reg = h.Registered], r, regResp), pongResp)

\* Kite.handle, for a payload that decodes to r (or does not decode): Pong,
\* then the switch.
Handled(h, r, pongResp, regResp) ==
    IF r.Action = "undecodable" THEN h
    ELSE LET p == Pong(h, pongResp)
         IN  Dispatch([p EXCEPT !.reg = p.Registered], r, regResp)

\* The calls the handling that ends in h made to the registry, applied to
\* the peers added and not removed.
NetAfter(h, r) ==
    IF \E k \in 1..Len(h.log) : h.log[k] = "add" THEN NetAdd(net, Peer(r))
    ELSE IF \E k \in 1..Len(h.log) : h.log[k] = "remove"
         THEN NetRemove(net, r.Uuid)
         ELSE net

\* The program state after the handling of r that ends in h.
HandlerEffect(h, r) ==
    /\ Registered' = h.Registered
    /\ OnceServer' = h.OnceServer
    /\ srv' = h.srv
    /\ serveCount' = h.serveCount
    /\ proc' = h.proc
    /\ Commit(h.objs, h.kites, call)
    /\ net' = NetAfter(h, r)
    /\ UNCHANGED <<KontrolEnabled, started, Pool, balance, OnceCall, discEpoch>>

\* What the handling that ends in h did, for the observations.
Observed(h, r, pongResp) ==
    [action |-> r.Action, reg0 |-> Registered, pong |-> pongResp,
     reg |-> h.reg, log |-> h.log, resp |-> h.resp, denied0 |-> denied]

\* One broadcast delivered by Messenger.Consume to handle (Consume is only
\* called by Start when Kontrol is enabled).
Deliver(r, pongResp, regResp) ==
    /\ started /\ KontrolEnabled /\ proc = "running"
    /\ \E h \in {Handled(HandlerState, r, pongResp, regResp)} :
          /\ HandlerEffect(h, r)
          /\ last' = Observed(h, r, pongResp)
          /\ prev' = last.action
          /\ denied' = (denied \/ h.resp = PermitKite)

handle ==
    /\ \E r \in Broadcasts :
          \E pongResp \in PongResponsesTo(r), regResp \in RegisterResponsesTo(r) :
             Deliver(r, pongResp, regResp)
    /\ UNCHANGED <<picks, lastPick>>

\* Kite.Start
Start ==
    /\ ~started /\ proc = "running"
    /\ started' = TRUE
    /\ IF KontrolEnabled
       THEN UNCHANGED <<Registered, srv, serveCount>>
       ELSE /\ Registered' = TRUE
            /\ srv' = "spawned"
            /\ serveCount' = serveCount + 1
    /\ UNCHANGED <<KontrolEnabled, proc, OnceServer, Pool, cvars, hvars>>

\* Kite.serve: net.Listen succeeds; k.Addr, k.Pool and k.Group are set.
ServeListen ==
    /\ proc = "running" /\ srv = "spawned"
    /\ srv' = "listening"
    /\ Pool' = TRUE
    /\ UNCHANGED <<KontrolEnabled, started, proc, Registered, OnceServer,
                   serveCount, cvars, hvars>>

\* Kite.serve: net.Listen fails; os.Exit(1).
ServeFail ==
    /\ proc = "running" /\ srv = "spawned"
    /\ proc' = "exit"
    /\ UNCHANGED <<KontrolEnabled, started, Registered, OnceServer, srv, Pool,
                   serveCount, cvars, hvars>>

\* ------------------------------------------------------------ Kite.Call
\* One Call invocation.  pc is its position:
\*   "idle"     not invoked yet
\*   "select"   at the select of the for loop
\*   "store"    in roundRobin, between balance.GetIndex and AddOrUpdateIndex
\*   "client"   in getRemoteKite, before the test r.Client == nil
\*   "dial"     in dialClient
\*   "blocked"  blocked for ever in a send on a full channel
\*   "wait"     at the inner select, after remoteKite.Client.Go
\*   "returned" Call has returned d
\* ticker tells that the ticker runs, tick that a tick is buffered in
\* ticker.C after ticker.Stop(); runCall and resetOnce count the values
\* buffered in the channels.  err is the error getRemoteKite returned ("nil",
\* "no kite", "dial"), kept until the next tick assigns it again.  d is the
\* rpc.Call: "none", "pending", "ok" (completed), "err" (completed with an
\* error).  cb lists the invocations of fn.
NewCall ==
    [pc |-> "idle", kite |-> "g1", n |-> 0, r |-> 0, remoteKite |-> 0,
     err |-> "nil", ticker |-> FALSE, tick |-> FALSE, runCall |-> 0,
     resetOnce |-> 0, d |-> "none", cb |-> <<>>]

\* Call up to the for loop: the ticker is started, the channels are empty.
CallStart(c, kite) ==
    /\ proc = "running" /\ call[c].pc = "idle"
    /\ call' = [call EXCEPT ![c] = [@ EXCEPT !.pc = "select", !.kite = kite,
                                              !.ticker = TRUE]]
    /\ UNCHANGED <<kvars, kites, objs, balance, OnceCall, discEpoch, net, hvars>>

\* A variant without the guard: the body runs at every Do.
OnceCallDo_Unguarded(once) == <<TRUE, 1>>

\* sync.Once.Do on OnceCall with the body that sends the getKites request:
\* <<the guard afterwards, the number of requests sent>>.
OnceCallDo(once) == IF once THEN <<TRUE, 0>> ELSE <<TRUE, 1>>

\* The err # nil branch of the ticker case: remoteKite is nil, the
\* discovery request goes through OnceCall.Do, and the loop goes on; the
\* error is not used again.
ResolveFailed(cs, err) ==
    [cs EXCEPT !.pc = "select", !.remoteKite = 0, !.err = err, !.r = 0,
               !.n = 0]

\* The else branch of the ticker case: ticker.Stop(), runCall <- true,
\* resetOnce <- true.  A tick may have arrived since the last one was read
\* (`late`); a send on a full channel blocks for ever, since only this
\* goroutine receives from it.
Resolved(cs, late) ==
    LET got == [cs EXCEPT !.remoteKite = cs.r, !.r = 0, !.n = 0,
                          !.ticker = FALSE, !.tick = cs.ticker /\ late]
    IN  IF got.runCall = 1 \/ got.resetOnce = 1
        THEN [got EXCEPT !.pc = "blocked"]
        ELSE [got EXCEPT !.pc = "select", !.runCall = 1, !.resetOnce = 1]

\* case <-ticker.C is ready for Call c.
TickReady(c) ==
    /\ proc = "running" /\ call[c].pc = "select"
    /\ (call[c].ticker \/ call[c].tick)

\* case <-ticker.C, with an empty registry: RemoteKites makes a slice of
\* capacity len(l)-1 = -1, which panics.
TickEmptyRegistry(c) ==
    /\ TickReady(c)
    /\ \A a \in Addrs : kites[a] = 0
    /\ proc' = "panic"
    /\ call' = [call EXCEPT ![c] = [@ EXCEPT !.tick = FALSE]]
    /\ UNCHANGED <<KontrolEnabled, started, Registered, OnceServer, srv, Pool,
                   serveCount, kites, objs, balance, OnceCall, discEpoch, net,
                   hvars>>

\* case <-ticker.C, when roundRobin finds no kite of that name.
TickNoKite(c) ==
    /\ TickReady(c)
    /\ \E l \in RegistryList(kites) :
          /\ Len(l) # 0
          /\ roundRobin(l, objs, balance, call[c].kite).err
    /\ Commit(objs, kites,
              [call EXCEPT ![c] = ResolveFailed([@ EXCEPT !.tick = FALSE],
                                                 "no kite")])
    /\ OnceCall' = OnceCallDo(OnceCall)[1]
    /\ discEpoch' = discEpoch + OnceCallDo(OnceCall)[2]
    /\ UNCHANGED <<kvars, balance, net, hvars>>

\* case <-ticker.C, roundRobin up to balance.GetIndex: the candidates are
\* listed, the index is read and the candidate chosen.
TickRoundRobin(c) ==
    /\ TickReady(c)
    /\ \E l \in RegistryList(kites) :
       \E rr \in {roundRobin(l, objs, balance, call[c].kite)} :
          /\ ~rr.err
          /\ Commit(objs, kites,
                    [call EXCEPT ![c] = [@ EXCEPT !.tick = FALSE,
                                                  !.err = "nil",
                                                  !.pc = "store",
                                                  !.n = rr.n, !.r = rr.r]])
    /\ UNCHANGED <<kvars, balance, OnceCall, discEpoch, net, hvars>>

\* roundRobin: balance.AddOrUpdateIndex(kite, n); return remoteKites[n].
RoundRobinStore(c) ==
    /\ proc = "running" /\ call[c].pc = "store"
    /\ balance' = AddOrUpdateIndex(balance, call[c].kite, call[c].n)
    /\ call' = [call EXCEPT ![c] = [@ EXCEPT !.pc = "client"]]
    /\ UNCHANGED <<kvars, kites, objs, OnceCall, discEpoch, net, hvars>>

\* getRemoteKite: r.Client is cached; the resolution succeeds.
ClientCached(c, late) ==
    /\ proc = "running" /\ call[c].pc = "client"
    /\ objs[call[c].r].Client
    /\ Commit(objs, kites, [call EXCEPT ![c] = Resolved(@, late)])
    /\ UNCHANGED <<kvars, balance, OnceCall, discEpoch, net, hvars>>

\* getRemoteKite: r.Client == nil; dialClient is entered.
ClientNil(c) ==
    /\ proc = "running" /\ call[c].pc = "client"
    /\ ~objs[call[c].r].Client
    /\ call' = [call EXCEPT ![c] = [@ EXCEPT !.pc = "dial"]]
    /\ UNCHANGED <<kvars, kites, objs, balance, OnceCall, discEpoch, net, hvars>>

\* A variant of the successful dial without kites.Add(r).
DialOk_NoReinsert(c, late) ==
    /\ proc = "running" /\ call[c].pc = "dial"
    /\ Commit([objs EXCEPT ![call[c].r] = [@ EXCEPT !.Client = TRUE,
                                                    !.Conns = @ + 1]],
              kites,
              [call EXCEPT ![c] = Resolved(@, late)])
    /\ UNCHANGED <<kvars, balance, OnceCall, discEpoch, net, hvars>>

\* dialClient succeeds: r.Client is the new client, kites.Add(r).
DialOk(c, late) ==
    /\ proc = "running" /\ call[c].pc = "dial"
    /\ Commit([objs EXCEPT ![call[c].r] = [@ EXCEPT !.Client = TRUE,
                                                    !.Conns = @ + 1]],
              RegistryAdd(kites, objs, call[c].r),
              [call EXCEPT ![c] = Resolved(@, late)])
    /\ net' = NetAdd(net, Peer(objs[call[c].r]))
    /\ UNCHANGED <<kvars, balance, OnceCall, discEpoch, hvars>>

\* dialClient fails (refused, or a status line other than `connected`):
\* r.Client is assigned nil and the error is returned.
DialFail(c) ==
    /\ proc = "running" /\ call[c].pc = "dial"
    /\ Commit([objs EXCEPT ![call[c].r] = [@ EXCEPT !.Client = FALSE]], kites,
              [call EXCEPT ![c] = ResolveFailed(@, "dial")])
    /\ OnceCall' = OnceCallDo(OnceCall)[1]
    /\ discEpoch' = discEpoch + OnceCallDo(OnceCall)[2]
    /\ UNCHANGED <<kvars, balance, net, hvars>>

\* case <-runCall: the request reads remoteKite.Token and is sent with
\* remoteKite.Client.Go; either dereference of nil panics.  The inner select
\* is entered: no case of the outer one is taken again.
SelectRunCall(c) ==
    LET cs == call[c] IN
    /\ proc = "running" /\ cs.pc = "select" /\ cs.runCall = 1
    /\ IF cs.remoteKite = 0 \/ ~objs[cs.remoteKite].Client
       THEN /\ proc' = "panic"
            /\ call' = [call EXCEPT ![c] = [cs EXCEPT !.runCall = 0]]
       ELSE /\ proc' = proc
            /\ call' = [call EXCEPT ![c] = [cs EXCEPT !.runCall = 0,
                                                      !.tick = FALSE,
                                                      !.pc = "wait",
                                                      !.d = "pending"]]
    /\ UNCHANGED <<KontrolEnabled, started, Registered, OnceServer, srv, Pool,
                   serveCount, kites, objs, balance, OnceCall, discEpoch, net,
                   hvars>>

\* case <-resetOnce: k.OnceCall = sync.Once{}.
SelectResetOnce(c) ==
    /\ proc = "running" /\ call[c].pc = "select" /\ call[c].resetOnce = 1
    /\ call' = [call EXCEPT ![c] = [@ EXCEPT !.resetOnce = 0]]
    /\ OnceCall' = FALSE
    /\ discEpoch' = 0
    /\ UNCHANGED <<kvars, kites, objs, balance, net, hvars>>

\* The remote call completes (d.Error and result are written, d.Done is
\* signalled), before or after Call has returned.
RpcComplete(c, outcome) ==
    /\ proc = "running" /\ call[c].d = "pending"
    /\ call' = [call EXCEPT ![c] = [@ EXCEPT !.d = outcome]]
    /\ UNCHANGED <<kvars, kites, objs, balance, OnceCall, discEpoch, net, hvars>>

\* A variant of the inner select without the return: the select is entered
\* again.
Callback_NoReturn(cs, by) ==
    [cs EXCEPT !.cb = Append(@, [by |-> by, d |-> cs.d,
                                 err |-> IF cs.d = "err" THEN "rpc" ELSE "nil",
                                 res |-> IF cs.d = "ok" THEN "result" ELSE ""])]

\* fn(d.Error, result), as the fields stand when a case of the inner select
\* runs, and return d: the locals of Call are gone.
Callback(cs, by) ==
    [cs EXCEPT !.pc = "returned", !.remoteKite = 0,
               !.cb = Append(@, [by |-> by, d |-> cs.d,
                                 err |-> IF cs.d = "err" THEN "rpc" ELSE "nil",
                                 res |-> IF cs.d = "ok" THEN "result" ELSE ""])]

\* case <-d.Done
SelectDone(c) ==
    /\ proc = "running" /\ call[c].pc = "wait" /\ call[c].d \in {"ok", "err"}
    /\ Commit(objs, kites, [call EXCEPT ![c] = Callback(@, "done")])
    /\ UNCHANGED <<kvars, balance, OnceCall, discEpoch, net, hvars>>

\* case <-time.Tick(10 * time.Second)
SelectTimeout(c) ==
    /\ proc = "running" /\ call[c].pc = "wait"
    /\ Commit(objs, kites, [call EXCEPT ![c] = Callback(@, "timer")])
    /\ UNCHANGED <<kvars, balance, OnceCall, discEpoch, net, hvars>>

\* ------------------------------------------------------- specifications
NoBroadcast ==
    [action |-> "none", reg0 |-> FALSE, pong |-> "", reg |-> FALSE,
     log |-> <<>>, resp |-> "none", denied0 |-> FALSE]

\* out is how the resolution ended: "ok", "error" (no kite of that name) or
\* "panic".
NoPick == [kite |-> "", index |-> 0, len |-> 0, n |-> 0, out |-> ""]

\* A kite as New() leaves it, with KontrolEnabled as the caller set it.
Init ==
    /\ KontrolEnabled \in BOOLEAN
    /\ started = FALSE
    /\ proc = "running"
    /\ Registered = FALSE
    /\ OnceServer = FALSE
    /\ srv = "none"
    /\ Pool = FALSE
    /\ serveCount = 0
    /\ kites = [a \in Addrs |-> 0]
    /\ objs = [i \in Objs |-> NoKite]
    /\ balance = [g \in Groups |-> 0]
    /\ OnceCall = FALSE
    /\ call = [c \in Calls |-> NewCall]
    /\ discEpoch = 0
    /\ net = {}
    /\ last = NoBroadcast
    /\ prev = "none"
    /\ denied = FALSE
    /\ picks = [g \in Groups |-> <<>>]
    /\ lastPick = NoPick

\* The coordination state machine: Start, the broadcasts, serve.
NextKontrol ==
    \/ Start
    \/ handle
    \/ ServeListen
    \/ ServeFail

\* The Call goroutines of the set C.
NextCall(C) ==
    \/ \E c \in C, kite \in Groups : CallStart(c, kite)
    \/ \E c \in C : TickEmptyRegistry(c)
    \/ \E c \in C : TickNoKite(c)
    \/ \E c \in C : TickRoundRobin(c)
    \/ \E c \in C : RoundRobinStore(c)
    \/ \E c \in C, late \in BOOLEAN : ClientCached(c, late)
    \/ \E c \in C : ClientNil(c)
    \/ \E c \in C, late \in BOOLEAN : DialOk(c, late)
    \/ \E c \in C : DialFail(c)
    \/ \E c \in C : SelectRunCall(c)
    \/ \E c \in C : SelectResetOnce(c)
    \/ \E c \in C, outcome \in {"ok", "err"} : RpcComplete(c, outcome)
    \/ \E c \in C : SelectDone(c)
    \/ \E c \in C : SelectTimeout(c)

Next == NextKontrol \/ NextCall(Calls)

\* The kite with its Calls.
Spec == Init /\ [][Next]_vars

\* The coordination state machine alone: no Call is made.
SpecKontrol == Init /\ [][NextKontrol]_vars

\* A registered, listening kite: the state after Start, a ping whose
\* register request was answered AllowKite, and serve.
InitCall ==
    /\ KontrolEnabled = TRUE
    /\ started = TRUE
    /\ proc = "running"
    /\ Registered = TRUE
    /\ OnceServer = TRUE
    /\ srv = "listening"
    /\ Pool = TRUE
    /\ serveCount = 1
    /\ kites = [a \in Addrs |-> 0]
    /\ objs = [i \in Objs |-> NoKite]
    /\ balance = [g \in Groups |-> 0]
    /\ OnceCall = FALSE
    /\ call = [c \in Calls |-> NewCall]
    /\ discEpoch = 0
    /\ net = {}
    /\ last = [action |-> PingAction, reg0 |-> FALSE, pong |-> "",
               reg |-> FALSE, log |-> <<"pong", "register", "serve", "set">>,
               resp |-> AllowKite, denied0 |-> FALSE]
    /\ prev = "none"
    /\ denied = FALSE
    /\ picks = [g \in Groups |-> <<>>]
    /\ lastPick = NoPick

\* The addKite and removeKite broadcasts (their pong answered with an empty
\* body).
PeerBroadcasts == {r \in Broadcasts : r.Action \in {AddKiteAction, RemoveKiteAction}}

\* The peers of the runs with concurrent Calls: u1 of group g1 at address
\* 1 and u2 of group g2 at address 2.
TwoPeers ==
    {r \in PeerBroadcasts :
        r.Action = AddKiteAction =>
            /\ (r.Kitename = "g1") <=> (r.Addr = 1)
            /\ (r.Uuid = "u1") <=> (r.Addr = 1)}

\* A broadcast of the set B handled by handle.
BroadcastEffect(B) ==
    /\ started /\ KontrolEnabled /\ proc = "running"
    /\ \E r \in B :
          \E h \in {Handled(HandlerState, r, "", "none")} : HandlerEffect(h, r)

PeerBroadcast(B) == BroadcastEffect(B) /\ UNCHANGED hvars

\* Concurrent Calls on a registered kite whose two peers come and go.
SpecCall == InitCall /\ [][PeerBroadcast(TwoPeers) \/ NextCall(Calls)]_vars

\* One Call on a registered kite, with every peer that can be announced.
SpecResolve ==
    InitCall /\ [][PeerBroadcast(PeerBroadcasts) \/ NextCall({1})]_vars

\* One resolution by Kite.roundRobin with no other goroutine between its
\* steps: on an empty registry RemoteKites panics; picks keeps, for the
\* group, the address returned and the order of the candidates in each of
\* the last resolutions, as many as there are candidates.
LastOf(q, n) == IF Len(q) <= n THEN q ELSE SubSeq(q, Len(q) - n + 1, Len(q))

Pick(l, rr, kite) ==
    [addr |-> objs[rr.r].Addr,
     order |-> [k \in 1..rr.len |-> objs[RemoteKites(l, objs, kite)[k]].Addr]]

Resolution(kite) ==
    /\ proc = "running"
    /\ IF \A a \in Addrs : kites[a] = 0
       THEN /\ proc' = "panic"
            /\ lastPick' = [kite |-> kite, index |-> GetIndex(balance, kite),
                            len |-> 0, n |-> 0, out |-> "panic"]
            /\ UNCHANGED <<balance, picks>>
       ELSE /\ proc' = proc
            /\ \E l \in RegistryList(kites) :
                  \E rr \in {roundRobin(l, objs, balance, kite)} :
                     /\ lastPick' = [kite |-> kite, index |-> rr.index,
                                     len |-> rr.len, n |-> rr.n,
                                     out |-> IF rr.err THEN "error" ELSE "ok"]
                     /\ IF rr.err
                        THEN UNCHANGED <<balance, picks>>
                        ELSE /\ balance' = AddOrUpdateIndex(balance, kite, rr.n)
                             /\ picks' = [picks EXCEPT ![kite] =
                                    LastOf(Append(@, Pick(l, rr, kite)), rr.len)]
    /\ UNCHANGED <<KontrolEnabled, started, Registered, OnceServer, srv, Pool,
                   serveCount, kites, objs, OnceCall, call, discEpoch, net,
                   last, prev, denied>>

\* A change of the registry between resolutions.
PeerChange ==
    /\ BroadcastEffect(PeerBroadcasts)
    /\ picks' = [g \in Groups |-> <<>>]
    /\ UNCHANGED <<last, prev, denied, lastPick>>

\* Resolutions one after the other, and changes of the registry.
SpecRR == InitCall /\ [][PeerChange \/ \E kite \in Groups : Resolution(kite)]_vars

\* ----------------------------------------------------------- properties
\* How many times the handling of a broadcast did e.
Count(log, e) == Cardinality({k \in 1..Len(log) : log[k] = e})

Decoded == {AddKiteAction, RemoveKiteAction, UpdateKiteAction, PingAction, "other"}

\* C1: for every broadcast that handle decodes, whatever its action, the
\* pong request is the first thing sent or done: it comes before the registry
\* mutation, the clearing of the registered flag and the register request,
\* and it is sent once.
C1_PongFirst ==
    last.action \in Decoded =>
        /\ Len(last.log) >= 1
        /\ last.log[1] = "pong"
        /\ Count(last.log, "pong") = 1

\* A broadcast has been handled whose action had an effect, which followed
\* the pong.
C1_Witness ==
    /\ Len(last.log) >= 2
    /\ last.log[1] = "pong"
    /\ last.log[2] \in {"add", "remove", "clear", "register"}

\* C2: the callback of a Call is never invoked a second time, and a Call
\* that has left the inner select (whichever of the completion and the
\* timer fired first) has invoked it exactly once; a completion that comes
\* after the timer adds no invocation.
C2_CallbackOnce ==
    \A c \in Calls :
       /\ Len(call[c].cb) <= 1
       /\ (call[c].pc = "returned") <=> (Len(call[c].cb) = 1)

\* The timer fired first, the callback ran, and the call completed later.
C2_Witness ==
    \E c \in Calls :
       /\ call[c].pc = "returned"
       /\ Len(call[c].cb) = 1
       /\ call[c].cb[1].by = "timer"
       /\ call[c].cb[1].d = "pending"
       /\ call[c].d \in {"ok", "err"}

\* C3: however many Calls fail to resolve a peer, at most one getKites
\* request is sent through Messenger.Send as long as no resolution has
\* succeeded since the first of them (so at most one for a tick in which
\* they all fail).
C3_OneDiscovery == discEpoch <= 1

\* Two Calls for the same group have both found no kite of it, and one
\* request has been sent.
C3_Witness ==
    /\ discEpoch = 1
    /\ \A c \in Calls : call[c].pc = "select" /\ call[c].err = "no kite"
    /\ \A c, e \in Calls : call[c].kite = call[e].kite

\* The entries of the registry for group g.
GroupSize(g) ==
    Cardinality({a \in Addrs : kites[a] # 0 /\ objs[kites[a]].Kitename = g})

AllDifferent(q) == \A i, j \in 1..Len(q) : q[i].addr = q[j].addr => i = j
SameOrder(q) == \A i, j \in 1..Len(q) : q[i].order = q[j].order

C5_IndexInRange ==
    lastPick.len > 0 =>
        /\ lastPick.n = (lastPick.index + 1) % lastPick.len
        /\ 0 <= lastPick.n
        /\ lastPick.n < lastPick.len

\* A resolution that found fewer candidates than the stored index needs.
C5_Witness ==
    /\ lastPick.len > 0
    /\ lastPick.index >= lastPick.len

\* C6: the registry holds exactly the peers added (by addKite, or by the
\* re-insert after a dial) and not removed or replaced afterwards, with at
\* most one entry for an address.
C6_NetSet ==
    /\ {Peer(objs[kites[a]]) : a \in {b \in Addrs : kites[b] # 0}} = net
    /\ \A p, q \in net : p.Addr = q.Addr => p = q

\* A Call holds a record it dialled and re-inserted, which has been removed
\* or replaced since, while the registry holds another peer.
C6_Witness ==
    /\ call[1].remoteKite # 0
    /\ \A a \in Addrs : kites[a] # call[1].remoteKite
    /\ Peer(objs[call[1].remoteKite]) \notin net
    /\ net # {}

\* C7 as stated: the broadcast handled after an updateKite, whatever its
\* action, sends exactly one register request.
C7_AnyActionRegisters ==
    (prev = UpdateKiteAction /\ last.action \in Decoded) =>
        Count(last.log, "register") = 1

\* C7, amended: the broadcast handled after an updateKite sends exactly one
\* register request if it is a ping, and none otherwise.
C7_PingRegisters ==
    (prev = UpdateKiteAction /\ last.action \in Decoded) =>
        Count(last.log, "register") = (IF last.action = PingAction THEN 1 ELSE 0)

\* A ping handled right after an updateKite has sent its register request.
C7_Witness ==
    /\ prev = UpdateKiteAction
    /\ last.action = PingAction
    /\ Count(last.log, "register") = 1

\* C8 as stated: after a register request was answered deny, no broadcast
\* sends a register request and the registered flag is false.
C8_DenyIsPermanent ==
    /\ last.denied0 => Count(last.log, "register") = 0
    /\ denied => ~Registered

\* C8, amended: a deny leaves the flag false and starts no server; after
\* it, every ping that finds the flag false sends a register request again
\* (and no other broadcast does).
C8_DenyIsRetried ==
    /\ last.resp = PermitKite =>
          (~Registered /\ Count(last.log, "set") = 0 /\ Count(last.log, "serve") = 0)
    /\ (last.denied0 /\ last.action \in Decoded) =>
          Count(last.log, "register") =
             (IF last.action = PingAction /\ ~last.reg THEN 1 ELSE 0)

\* After a deny, a later ping has registered the kite.
C8_Witness ==
    /\ last.denied0
    /\ last.action = PingAction
    /\ last.resp = AllowKite
    /\ Registered

\* C9: a callback invoked by the timer before the call has completed gets
\* a non-nil error and the zero-value result.
C9_TimeoutError ==
    \A c \in Calls : \A k \in 1..Len(call[c].cb) :
       (call[c].cb[k].by = "timer" /\ call[c].cb[k].d = "pending") =>
           (call[c].cb[k].err # "nil" /\ call[c].cb[k].res = "")

\* C10: a dial error of the resolution and an error of the remote method
\* are passed to the callback.
C10_ErrorsReachCallback ==
    \A c \in Calls :
       /\ call[c].err = "dial" =>
             \E k \in 1..Len(call[c].cb) : call[c].cb[k].err = "dial"
       /\ (call[c].pc = "returned" /\ call[c].d = "err") =>
             \E k \in 1..Len(call[c].cb) : call[c].cb[k].err = "rpc"

\* C11: a Call issues its RPC only with a peer of its group that one of its
\* resolutions returned, and invokes its callback only after the RPC was
\* issued; a Call whose group has no member does neither.
C11_NoPeerNoCall ==
    [][\A c \in Calls :
          /\ (call[c].d = "none" /\ call'[c].d # "none") =>
                 /\ call[c].remoteKite # 0
                 /\ objs[call[c].remoteKite].Kitename = call[c].kite
          /\ Len(call'[c].cb) > Len(call[c].cb) => call[c].d # "none"]_vars

\* A Call for a group without members has ticked, found no kite, and has
\* neither issued an RPC nor invoked its callback, while another Call, for a
\* group with a member, has invoked its callback.
C11_Witness ==
    \E c, e \in Calls :
       /\ GroupSize(call[c].kite) = 0
       /\ call[c].err = "no kite"
       /\ call[c].d = "none"
       /\ call[c].cb = <<>>
       /\ call[e].cb # <<>>

\* C12: at most one connection is opened and held for a record of a remote
\* peer: two resolutions that select it while it has no cached connection do
\* not both dial it.
C12_OneConnection == \A i \in Objs : objs[i].Conns <= 1

\* C13: a Call that has returned after a successful resolution has taken the
\* value it put in resetOnce, that is, it has reset OnceCall.
C13_ResetBeforeReturn ==
    \A c \in Calls : call[c].pc = "returned" => call[c].resetOnce = 0

\* C14: the registered flag is cleared by the re-registration signals and by
\* nothing else: after an updateKite is handled the flag is false, a pong
\* answered "UPDATE" leaves it false for the switch, a pong answered
\* otherwise leaves it as it was, and a flag that was true before a broadcast
\* and is false after it was cleared by one of the two.
C14_ClearedBySignals ==
    last.action # "none" =>
        /\ last.action = UpdateKiteAction => ~Registered
        /\ (last.action \in Decoded /\ last.pong = "UPDATE") => ~last.reg
        /\ last.pong # "UPDATE" => (last.reg = last.reg0)
        /\ (last.reg0 /\ ~Registered) =>
              (last.action = UpdateKiteAction \/ last.pong = "UPDATE")

\* A registered kite has handled an addKite whose pong was answered
\* "UPDATE": the flag is cleared and the peer was not added.
C14_Witness ==
    /\ last.reg0
    /\ last.action = AddKiteAction
    /\ last.pong = "UPDATE"
    /\ ~Registered

\* C15: a resolution for a group that has no entry in the registry ends with
\* the error that names the group.
C15_MissingGroupError ==
    (lastPick.kite # "" /\ lastPick.len = 0) => lastPick.out = "error"

\* The registry as its users see it: for each address, the peer and whether
\* its record has a cached connection.
RegistryView ==
    [a \in Addrs |->
        IF kites[a] = 0 THEN [peer |-> Peer(NoKite), client |-> FALSE]
        ELSE [peer |-> Peer(objs[kites[a]]), client |-> objs[kites[a]].Client]]

\* C16: a dial that fails returns its error, leaves the selected record
\* without a cached connection and the registry with the entries it had; a
\* dial that succeeds caches the connection and re-inserts the peer.  A
\* resolution dials exactly when the selected record has no cached
\* connection.
C16_DialCaching ==
    [][\A c \in Calls :
          LET r == call[c].r
              a == objs[r].Addr
          IN  /\ (call[c].pc = "dial" /\ call'[c].pc # "dial" /\ call'[c].err = "dial") =>
                    /\ call'[c].remoteKite = 0
                    /\ net' = net
                    /\ \A b \in Addrs : RegistryView'[b].peer = RegistryView[b].peer
                    /\ kites[a] = r => ~RegistryView'[a].client
              /\ (call[c].pc = "dial" /\ call'[c].pc # "dial" /\ call'[c].err # "dial") =>
                    /\ RegistryView'[a] = [peer |-> Peer(objs[r]), client |-> TRUE]
                    /\ call'[c].remoteKite # 0
                    /\ objs'[call'[c].remoteKite].Client
              /\ (call[c].pc = "client" /\ call'[c].pc # "client") =>
                    ((call'[c].pc = "dial") <=> ~objs[r].Client)]_vars

\* One Call has had its dial refused and is back at the select; another has
\* resolved a record whose connection is cached.
C16_Witness ==
    \E c, e \in Calls :
       /\ call[c].pc = "select" /\ call[c].err = "dial"
       /\ call[e].remoteKite # 0
       /\ objs[call[e].remoteKite].Client

\* C17: with Kontrol enabled, serve is entered at most once, however many
\* times the kite registers, and the handling of a broadcast enters it only
\* if its register request was answered AllowKite.
C17_ServeOnce ==
    KontrolEnabled =>
        /\ serveCount <= 1
        /\ Count(last.log, "serve") > 0 => last.resp = AllowKite

\* A kite whose server runs has registered again (after an updateKite or an
\* "UPDATE" pong) without entering serve a second time.
C17_Witness ==
    /\ KontrolEnabled
    /\ serveCount = 1
    /\ last.action = PingAction
    /\ last.resp = AllowKite
    /\ Count(last.log, "set") = 1
    /\ Count(last.log, "serve") = 0

\* C18: the handling of a broadcast sends a register request exactly when
\* the broadcast is a ping and the registered flag is false after the pong
\* of that broadcast; it sends one then, and none in any other case.
C18_RegisterOnPing ==
    Count(last.log, "register") =
        (IF last.action = PingAction /\ ~last.reg THEN 1 ELSE 0)

\* A ping found the flag true, its pong was answered "UPDATE", and the
\* register request was sent.
C18_Witness ==
    /\ last.action = PingAction
    /\ last.reg0
    /\ last.pong = "UPDATE"
    /\ Count(last.log, "register") = 1

\* C19: the handling of an addKite or a removeKite that finds the
\* registered flag false leaves the registry as it was.
C19_UnregisteredIgnores ==
    [][(last'.action \in {AddKiteAction, RemoveKiteAction} /\ ~last'.reg) =>
          (RegistryView' = RegistryView /\ net' = net)]_vars

\* A kite that holds a peer has handled an addKite with the flag false.
C19_Witness ==
    /\ net # {}
    /\ last.action = AddKiteAction
    /\ ~last.reg

\* C20: a peer that is not in the registry (it was removed) enters it only
\* by the handling of an addKite broadcast, which inserts a new record
\* without a connection; a resolution that finishes its dial after the
\* removal does not put the peer back.
C20_RemovedStaysAbsent ==
    [][\A p \in net' \ net :
          /\ ~objs'[kites'[p.Addr]].Client
          /\ objs'[kites'[p.Addr]].Conns = 0]_vars

\* C21: whenever the registered flag is true, serve has already bound the
\* listener and set the address and the cache pool; and no addKite broadcast
\* is acted upon (kites.Add followed by SetPeers on the pool) before serve has
\* created the pool.
C21_RegisteredAfterServe ==
    /\ Registered => (srv = "listening" /\ Pool)
    /\ Count(last.log, "add") > 0 => Pool

====
